---- MODULE Spec2Model ----
(***************************************************************************)
(* Model of the projection engine of fire-streamlit (src/src/calculator.py *)
(* with the records of src/src/models.py).                                 *)
(*                                                                         *)
(* Numbers.  Python floats are modelled as fixed-point decimals:           *)
(*   - money is an integer number of thousandths of a yuan (1.00 = 1000),  *)
(*     so a value rounded to 2 decimals is a multiple of 10;               *)
(*   - percent rates (salary_growth_rate, deposit_rate, inflation_rate,    *)
(*     housing_fund_rate) are in tenths of a percent (4.0% = 40);          *)
(*   - ratios (contribution_ratio, living_expense_ratio,                   *)
(*     pension_replacement_ratio) are in hundredths (0.6 = 60).            *)
(* Every arithmetic statement of the source is evaluated exactly and its   *)
(* result rounded to the nearest thousandth, as a float operation rounds   *)
(* to the nearest representable value.                                     *)
(***************************************************************************)
EXTENDS Integers, Sequences, FiniteSets, TLC

VARIABLES
    params,          \* the FinanceParams argument of the running call
    horizon,         \* the max_projection_years argument
    i,               \* loop index of calculate_yearly_projection
    monthly_salary, average_salary, savings, housing_fund,
    pension_years, medical_years,
    data,            \* the list of YearlyData built so far
    pc,              \* "idle" | "loop" | "done"
    heap,            \* FinanceParams objects by identity (batch runner)
    scenarios,       \* the scenarios dict: name -> object identity
    order,           \* names not yet visited by the for loop, in dict order
    results,         \* the results dict of calculate_scenarios
    spc,             \* "idle" | "loop" | "done"
    returned,        \* the lists returned by the calls made so far, in order
    tasks,           \* concurrent invocations: name -> its record and locals
    presets_file,    \* config/presets.json: whether it exists, and its dict
    loaded,          \* outcome of the last params_from_dict(get_preset(..))
    workbook,        \* the exported Excel file: whether it exists, its sheets
    imported,        \* what import_params_from_excel returned last
    sessions         \* concurrent save_preset calls: session -> its locals

projVars == <<params, horizon, i, monthly_salary, average_salary, savings,
              housing_fund, pension_years, medical_years, data, pc>>
scenVars == <<heap, scenarios, order, results, spc>>
callVars == <<returned, tasks, sessions>>
fileVars == <<presets_file, loaded, workbook, imported>>
vars == <<params, horizon, i, monthly_salary, average_salary, savings,
          housing_fund, pension_years, medical_years, data, pc,
          heap, scenarios, order, results, spc,
          returned, tasks, presets_file, loaded, workbook, imported,
          sessions>>

---------------------------------------------------------------------------
(* Bounds and program constants *)

\* largest small horizon tried besides the default one
MaxHorizon == 2

\* number of calls a caller makes with the same arguments
MaxCalls == 2

\* number of FinanceParams objects the scenarios dict may refer to
MaxObjects == 2

\* max_projection_years: int = 60
max_projection_years == 60
MIN_PENSION_YEARS == 20
MIN_MEDICAL_YEARS == 25
PENSION_RECEIVE_AGE == 60

---------------------------------------------------------------------------
(* Fixed-point arithmetic *)

\* round(a * n / d) to the nearest integer, computed without leaving 32 bits
MulDiv(a, n, d) ==
    LET q == a \div d
        r == a % d
    IN  q * n + ((2 * r * n + d) \div (2 * d))

\* x * (1 + rate / 100), rate in tenths of a percent
Grow(x, rate) == MulDiv(x, 1000 + rate, 1000)

\* x * ratio, ratio in hundredths
Frac(x, ratio) == MulDiv(x, ratio, 100)

\* x * (1 + rate / 100) ** n: x grown n times.  The n growth steps are
\* applied in two runs of about n / 2 steps, and the first run is evaluated
\* (y = y holds always) before the second starts, only to keep TLC's
\* evaluation shallow; the value is that of n successive steps.
RECURSIVE Compound(_, _, _)
Compound(x, rate, n) ==
    IF n = 0 THEN x
    ELSE IF n = 1 THEN Grow(x, rate)
    ELSE LET y == Compound(x, rate, n \div 2)
         IN  IF y = y THEN Compound(y, rate, n - (n \div 2)) ELSE x

\* Python's round(x, 2): nearest hundredth, ties to the even hundredth
Round2(x) ==
    LET q == x \div 10
        r == x % 10
    IN  10 * (IF r < 5 THEN q
              ELSE IF r > 5 THEN q + 1
              ELSE IF q % 2 = 0 THEN q ELSE q + 1)

Max(a, b) == IF a >= b THEN a ELSE b

---------------------------------------------------------------------------
(* calculate_yearly_projection: the statements of one loop iteration *)

\* mutant: the start year counts as a year already paid
initial_years_inclusive(p) == Max(0, p.start_year - p.start_work_year + 1)

\* years already paid from start_work_year to start_year
initial_years(p) == Max(0, p.start_year - p.start_work_year)

year_of(p, k) == p.start_year + k
age_of(p, k) == p.current_age + k
\* mutant: the year of the retirement age is still a working year
is_retired_after(p, k) == age_of(p, k) > p.retirement_age

is_retired(p, k) == age_of(p, k) >= p.retirement_age

\* mutant: the salary keeps growing after retirement
salary_step_always(p, ms, k) ==
    IF k > 0 THEN Grow(ms, p.salary_growth_rate) ELSE ms

\* monthly salary grows before retirement, from the second year on
salary_step(p, ms, k) ==
    IF ~is_retired(p, k) /\ k > 0 THEN Grow(ms, p.salary_growth_rate) ELSE ms

\* mutant: the average salary stops growing at retirement, as the salary does
average_step_until_retired(p, avg, k) ==
    IF ~is_retired(p, k) /\ k > 0 THEN Grow(avg, p.salary_growth_rate) ELSE avg

\* the local average salary grows every year, from the second year on
average_step(p, avg, k) ==
    IF k > 0 THEN Grow(avg, p.salary_growth_rate) ELSE avg

\* mutant: only the pension years are looked at
need_continue_pay_pension_only(retired, py, my) ==
    retired /\ py < MIN_PENSION_YEARS

need_continue_pay(retired, py, my) ==
    retired /\ (py < MIN_PENSION_YEARS \/ my < MIN_MEDICAL_YEARS)

\* mutant: the catch-up base is the frozen salary, not the average salary
contribution_base_salary(p, ms, avg, retired, ncp) ==
    IF ~retired \/ ncp THEN Frac(ms, p.contribution_ratio) ELSE 0

contribution_base(p, ms, avg, retired, ncp) ==
    IF ~retired THEN Frac(ms, p.contribution_ratio)
    ELSE IF ncp THEN Frac(avg, p.contribution_ratio)
    ELSE 0

\* monthly_pension = contribution_base * 0.3; pension_contribution = monthly_pension * 12
pension_contribution(cb, retired, ncp) ==
    (IF ~retired \/ ncp THEN MulDiv(cb, 3, 10) ELSE 0) * 12

\* mutant: a counter grows in every paying year, its own minimum ignored
count_year_while_paying(years, minimum, retired, ncp) ==
    IF ~retired \/ ncp THEN years + 1 ELSE years

\* a counter grows by one in a paying year while it is below its minimum
count_year(years, minimum, retired, ncp) ==
    IF (~retired \/ ncp) /\ years < minimum THEN years + 1 ELSE years

\* mutant: a retired year adds no salary-based contribution to the fund
housing_growth_working(p, hf, ms, k) ==
    IF age_of(p, k) < 60 /\ k > 0
    THEN Grow(hf, p.housing_fund_rate)
         + (IF is_retired(p, k) THEN 0 ELSE MulDiv(ms, 7, 100) * 12)
    ELSE hf

\* mutant: the fund still grows in the year of age 60
housing_growth_through_60(p, hf, ms, k) ==
    IF age_of(p, k) <= 60 /\ k > 0
    THEN Grow(hf, p.housing_fund_rate) + MulDiv(ms, 7, 100) * 12
    ELSE hf

\* housing fund: yearly growth plus 7% of the monthly salary, below age 60
housing_growth(p, hf, ms, k) ==
    IF age_of(p, k) < 60 /\ k > 0
    THEN Grow(hf, p.housing_fund_rate) + MulDiv(ms, 7, 100) * 12
    ELSE hf

\* at age 60 the housing fund is withdrawn into the savings
withdraws(p, hf, k) == age_of(p, k) = 60 /\ hf > 0

\* mutant: the withdrawn fund is not added to the savings
savings_after_withdrawal_lost(p, sav, hf, k) == sav

savings_after_withdrawal(p, sav, hf, k) ==
    IF withdraws(p, hf, k) THEN sav + hf ELSE sav

housing_after_withdrawal(p, hf, k) ==
    IF withdraws(p, hf, k) THEN 0 ELSE hf

\* mutant: the living expense is not inflated
annual_living_expense_flat(p, avg, k) ==
    Frac(avg, p.living_expense_ratio) * 12

annual_living_expense(p, avg, k) ==
    LET base_expense == Frac(avg, p.living_expense_ratio)
        monthly_living_expense ==
            IF k > 0 THEN Compound(base_expense, p.inflation_rate, k)
            ELSE base_expense
    IN  monthly_living_expense * 12

annual_income(ms, retired) == IF ~retired THEN ms * 12 ELSE 0

\* mutant: the age gate is dropped
can_receive_pension_any_age(p, k, py) == py >= MIN_PENSION_YEARS

\* mutant: the age gate is the record's official_retirement_age
can_receive_pension_official(p, k, py) ==
    age_of(p, k) >= p.official_retirement_age /\ py >= MIN_PENSION_YEARS

\* mutant: the minimum has to be exceeded
can_receive_pension_strict(p, k, py) ==
    age_of(p, k) >= PENSION_RECEIVE_AGE /\ py > MIN_PENSION_YEARS

\* mutant: the pension is received in the year of age 60 only
can_receive_pension_at_age(p, k, py) ==
    age_of(p, k) = PENSION_RECEIVE_AGE /\ py >= MIN_PENSION_YEARS

can_receive_pension(p, k, py) ==
    age_of(p, k) >= PENSION_RECEIVE_AGE /\ py >= MIN_PENSION_YEARS

annual_pension_benefit(p, avg, crp) ==
    (IF crp THEN Frac(avg, p.pension_replacement_ratio) ELSE 0) * 12

annual_savings(income, benefit, contribution, expense) ==
    income + benefit - contribution - expense

\* mutant: the savings are not allowed below zero
savings_step_clamped(p, sav, flow) == Max(0, Grow(sav, p.deposit_rate) + flow)

\* mutant: the savings are carried as the rounded value of the record
savings_step_rounded(p, sav, flow) == Round2(Grow(sav, p.deposit_rate) + flow)

savings_step(p, sav, flow) == Grow(sav, p.deposit_rate) + flow

\* mutant: the personal pension balance is counted, as the docstring says
total_assets_with_pension(p, sav, hf) == sav + hf + p.initial_personal_pension

total_assets(p, sav, hf) == sav + hf

emitted_monthly_salary(ms, retired) == Round2(IF ~retired THEN ms ELSE 0)

\* The carried state is the record
\* [monthly_salary, average_salary, savings, housing_fund, pension_years,
\*  medical_years]; Body gives the state after iteration k (st), the
\* YearlyData appended by it (rec) and the iteration's other locals (loc).
Body(p, s, k) ==
    LET retired == is_retired(p, k)
        ms      == salary_step(p, s.monthly_salary, k)
        avg     == average_step(p, s.average_salary, k)
        ncp     == need_continue_pay(retired, s.pension_years, s.medical_years)
        cb      == contribution_base(p, ms, avg, retired, ncp)
        pcon    == pension_contribution(cb, retired, ncp)
        py      == count_year(s.pension_years, MIN_PENSION_YEARS, retired, ncp)
        my      == count_year(s.medical_years, MIN_MEDICAL_YEARS, retired, ncp)
        hf1     == housing_growth(p, s.housing_fund, ms, k)
        sav1    == savings_after_withdrawal(p, s.savings, hf1, k)
        hf      == housing_after_withdrawal(p, hf1, k)
        expense == annual_living_expense(p, avg, k)
        income  == annual_income(ms, retired)
        crp     == can_receive_pension(p, k, py)
        benefit == annual_pension_benefit(p, avg, crp)
        flow    == annual_savings(income, benefit, pcon, expense)
        sav     == savings_step(p, sav1, flow)
        total   == total_assets(p, sav, hf)
    IN  [st  |-> [monthly_salary |-> ms, average_salary |-> avg,
                  savings |-> sav, housing_fund |-> hf,
                  pension_years |-> py, medical_years |-> my],
         rec |-> [year |-> year_of(p, k),
                  age |-> age_of(p, k),
                  average_salary |-> Round2(avg),
                  monthly_salary |-> emitted_monthly_salary(ms, retired),
                  contribution_base |-> Round2(cb),
                  pension_contribution |-> Round2(pcon),
                  housing_fund_account |-> Round2(hf),
                  pension_years |-> py,
                  medical_years |-> my,
                  can_receive_pension |-> crp,
                  annual_pension_received |-> Round2(benefit),
                  living_expense |-> Round2(expense),
                  savings |-> Round2(sav),
                  total_assets |-> Round2(total),
                  is_retirement_year |-> (age_of(p, k) = p.retirement_age),
                  is_pension_start_year |->
                      (age_of(p, k) = PENSION_RECEIVE_AGE /\ crp)],
         loc |-> [is_retired |-> retired,
                  need_continue_pay |-> ncp,
                  contribution_base |-> cb,
                  pension_contribution |-> pcon,
                  annual_living_expense |-> expense,
                  annual_income |-> income,
                  annual_pension_benefit |-> benefit,
                  annual_savings |-> flow]]

\* the locals before the loop
InitialState(p) ==
    [monthly_salary |-> p.initial_monthly_salary,
     average_salary |-> p.local_average_salary,
     savings |-> p.initial_savings,
     housing_fund |-> p.initial_housing_fund,
     pension_years |-> initial_years(p),
     medical_years |-> initial_years(p)]

\* mutant: range(max_projection_years)
loop_count_short(h) == h

\* for i in range(max_projection_years + 1): the number of iterations
loop_count(h) == h + 1
loop_continues(k, h) == k < loop_count(h)

\* Iterations lo .. hi - 1 of the loop run in order from the carried state s:
\* the carried state after them and the records they append.  The range is
\* split in halves, and the first half is evaluated (a = a holds always)
\* before the second starts, only to keep TLC's evaluation shallow; the
\* iterations run in increasing order, each from the state the one before
\* it left.
RECURSIVE Loop(_, _, _, _)
Loop(p, s, lo, hi) ==
    IF hi <= lo THEN [st |-> s, out |-> <<>>]
    ELSE IF hi = lo + 1
    THEN LET b == Body(p, s, lo) IN [st |-> b.st, out |-> <<b.rec>>]
    ELSE LET a == Loop(p, s, lo, (lo + hi) \div 2)
         IN  IF a = a
             THEN LET b == Loop(p, a.st, (lo + hi) \div 2, hi)
                  IN  [st |-> b.st, out |-> a.out \o b.out]
             ELSE a

\* the function as a whole: the list it returns
calculate_yearly_projection(p, h) ==
    Loop(p, InitialState(p), 0, loop_count(h)).out

---------------------------------------------------------------------------
(* Inputs *)

\* The default scenario of the application scaled by 1/100 (amounts in
\* thousandths, rates in tenths of a percent, ratios in hundredths)
BaseParams ==
    [start_year |-> 2025, start_work_year |-> 2015,
     current_age |-> 34, retirement_age |-> 45,
     official_retirement_age |-> 60,
     initial_monthly_salary |-> 100000, local_average_salary |-> 123070,
     salary_growth_rate |-> 40,
     pension_replacement_ratio |-> 40, contribution_ratio |-> 60,
     living_expense_ratio |-> 50,
     deposit_rate |-> 20, inflation_rate |-> 0,
     initial_savings |-> 10000000, initial_housing_fund |-> 1500000,
     housing_fund_rate |-> 15, initial_personal_pension |-> 0]

\* every case of the age, retirement and contribution-year rules
Careers ==
    [start_work_year : {1995, 2006, 2015, 2030},
     current_age : {34, 58, 61},
     retirement_age : {30, 45, 60, 63}]

\* rates and opening balances
Economies ==
    {e \in [salary_growth_rate : {0, 40}, inflation_rate : {0, 30},
            initial_savings : {10000000},
            initial_housing_fund : {0, 1500000}] :
        e.salary_growth_rate = 0 => e.inflation_rate = 0}

\* the two fields of the record that the loop never reads
Unread ==
    [official_retirement_age : {55, 60}, initial_personal_pension : {0, 500000}]

WithCareer(p, c) ==
    [p EXCEPT !.start_work_year = c.start_work_year,
              !.current_age = c.current_age,
              !.retirement_age = c.retirement_age]

WithEconomy(p, e) ==
    [p EXCEPT !.salary_growth_rate = e.salary_growth_rate,
              !.inflation_rate = e.inflation_rate,
              !.initial_savings = e.initial_savings,
              !.initial_housing_fund = e.initial_housing_fund]

WithUnread(p, u) ==
    [p EXCEPT !.official_retirement_age = u.official_retirement_age,
              !.initial_personal_pension = u.initial_personal_pension]

\* a local_average_salary of 0.10 yuan: the field is an unconstrained float
LowAverages == [local_average_salary : {100}]

WithAverage(p, a) ==
    [p EXCEPT !.local_average_salary = a.local_average_salary]

\* FinanceParams records the calls are made with: every career, with either
\* every economy, every value of the unread fields or a low average salary
ParamSpace ==
    {WithEconomy(WithCareer(BaseParams, c), e) : c \in Careers, e \in Economies}
    \cup {WithUnread(WithCareer(BaseParams, c), u) : c \in Careers, u \in Unread}
    \cup {WithAverage(WithCareer(BaseParams, c), a) :
              c \in Careers, a \in LowAverages}

\* The record of the end-to-end test, at full scale: salary 10000, average
\* 12307, savings 1000000, housing fund 150000.  Its amounts stay below
\* 2^31 thousandths for the first years only, so it is run with the small
\* horizons.
EndToEndParams ==
    [start_year |-> 2025, start_work_year |-> 2015,
     current_age |-> 34, retirement_age |-> 45,
     official_retirement_age |-> 60,
     initial_monthly_salary |-> 10000000, local_average_salary |-> 12307000,
     salary_growth_rate |-> 40,
     pension_replacement_ratio |-> 40, contribution_ratio |-> 60,
     living_expense_ratio |-> 50,
     deposit_rate |-> 20, inflation_rate |-> 0,
     initial_savings |-> 1000000000, initial_housing_fund |-> 150000000,
     housing_fund_rate |-> 15, initial_personal_pension |-> 0]

Horizons == (0 .. MaxHorizon) \cup {max_projection_years}

---------------------------------------------------------------------------
(* One call of calculate_yearly_projection, an iteration at a time *)

Carried ==
    [monthly_salary |-> monthly_salary, average_salary |-> average_salary,
     savings |-> savings, housing_fund |-> housing_fund,
     pension_years |-> pension_years, medical_years |-> medical_years]

NoBatch ==
    /\ heap = <<>>
    /\ scenarios = <<>>
    /\ order = <<>>
    /\ results = <<>>
    /\ spc = "idle"

NoCallers ==
    /\ returned = <<>>
    /\ tasks = <<>>
    /\ sessions = <<>>

\* a file that does not exist, and one that holds content
NoFile == [exists |-> FALSE, content |-> <<>>]
FileOf(content) == [exists |-> TRUE, content |-> content]

NoFiles ==
    /\ presets_file = NoFile
    /\ loaded = <<>>
    /\ workbook = NoFile
    /\ imported = <<>>

Init ==
    /\ \/ params \in ParamSpace /\ horizon \in Horizons
       \/ params = EndToEndParams /\ horizon \in 0 .. MaxHorizon
    /\ i = 0
    /\ monthly_salary = InitialState(params).monthly_salary
    /\ average_salary = InitialState(params).average_salary
    /\ savings = InitialState(params).savings
    /\ housing_fund = InitialState(params).housing_fund
    /\ pension_years = InitialState(params).pension_years
    /\ medical_years = InitialState(params).medical_years
    /\ data = <<>>
    /\ pc = "loop"
    /\ NoBatch
    /\ NoCallers
    /\ NoFiles

Iterate ==
    /\ pc = "loop"
    /\ loop_continues(i, horizon)
    /\ LET b == Body(params, Carried, i)
       IN  /\ monthly_salary' = b.st.monthly_salary
           /\ average_salary' = b.st.average_salary
           /\ savings' = b.st.savings
           /\ housing_fund' = b.st.housing_fund
           /\ pension_years' = b.st.pension_years
           /\ medical_years' = b.st.medical_years
           /\ data' = Append(data, b.rec)
    /\ i' = i + 1
    /\ UNCHANGED <<params, horizon, pc, scenVars, callVars, fileVars>>

Return ==
    /\ pc = "loop"
    /\ ~loop_continues(i, horizon)
    /\ pc' = "done"
    /\ UNCHANGED <<params, horizon, i, monthly_salary, average_salary, savings,
                   housing_fund, pension_years, medical_years, data,
                   scenVars, callVars, fileVars>>

Next == Iterate \/ Return

Spec == Init /\ [][Next]_vars

---------------------------------------------------------------------------
(* calculate_scenarios: the batch runner, a dict entry at a time *)

Names == {"A", "B"}
ObjIds == 1 .. MaxObjects

\* the records the FinanceParams objects of a batch may hold
ScenarioParams ==
    {BaseParams,
     WithCareer(BaseParams,
                [start_work_year |-> 1995, current_age |-> 58,
                 retirement_age |-> 60]),
     WithEconomy(BaseParams,
                 [salary_growth_rate |-> 40, inflation_rate |-> 30,
                  initial_savings |-> 0, initial_housing_fund |-> 0]),
     WithUnread(BaseParams,
                [official_retirement_age |-> 55,
                 initial_personal_pension |-> 500000])}

\* the orders a dict with the keys S can be iterated in
Orders(S) ==
    {o \in [1 .. Cardinality(S) -> S] :
        \A a, b \in 1 .. Cardinality(S) : a # b => o[a] # o[b]}

\* d[name] = value
Put(d, name, value) ==
    [n \in DOMAIN d \cup {name} |-> IF n = name THEN value ELSE d[n]]

\* mutant: every entry is computed from the same FinanceParams
scenario_result_shared(h, sc, name) ==
    calculate_yearly_projection(h[sc[CHOOSE n \in DOMAIN sc : TRUE]],
                                max_projection_years)

\* calculate_yearly_projection(params) for the params stored under name
scenario_result(h, sc, name) ==
    calculate_yearly_projection(h[sc[name]], max_projection_years)

NoCall ==
    /\ params = <<>>
    /\ horizon = 0
    /\ i = 0
    /\ monthly_salary = 0
    /\ average_salary = 0
    /\ savings = 0
    /\ housing_fund = 0
    /\ pension_years = 0
    /\ medical_years = 0
    /\ data = <<>>
    /\ pc = "idle"

InitScenarios ==
    /\ heap \in [ObjIds -> ScenarioParams]
    /\ \E S \in SUBSET Names :
          /\ scenarios \in [S -> ObjIds]
          /\ order \in Orders(S)
    /\ results = <<>>
    /\ spc = "loop"
    /\ NoCall
    /\ NoCallers
    /\ NoFiles

ScenarioIterate ==
    /\ spc = "loop"
    /\ order # <<>>
    /\ results' = Put(results, Head(order),
                      scenario_result(heap, scenarios, Head(order)))
    /\ order' = Tail(order)
    /\ UNCHANGED <<heap, scenarios, spc, projVars, callVars, fileVars>>

ScenarioReturn ==
    /\ spc = "loop"
    /\ order = <<>>
    /\ spc' = "done"
    /\ UNCHANGED <<heap, scenarios, order, results, projVars, callVars,
                   fileVars>>

NextScenarios == ScenarioIterate \/ ScenarioReturn

SpecScenarios == InitScenarios /\ [][NextScenarios]_vars

---------------------------------------------------------------------------
(* A caller that calls calculate_yearly_projection again with the same
   arguments once a call has returned *)

\* mutant: the list is an object that outlives the call
new_data_kept(previous) == previous

\* data: List[YearlyData] = []: every call starts from a new empty list
new_data(previous) == <<>>

InitRepeat ==
    /\ params \in ScenarioParams
    /\ horizon \in Horizons
    /\ i = 0
    /\ monthly_salary = InitialState(params).monthly_salary
    /\ average_salary = InitialState(params).average_salary
    /\ savings = InitialState(params).savings
    /\ housing_fund = InitialState(params).housing_fund
    /\ pension_years = InitialState(params).pension_years
    /\ medical_years = InitialState(params).medical_years
    /\ data = <<>>
    /\ pc = "loop"
    /\ NoBatch
    /\ NoCallers
    /\ NoFiles

\* return data: the caller receives the list
ReturnToCaller ==
    /\ pc = "loop"
    /\ ~loop_continues(i, horizon)
    /\ pc' = "done"
    /\ returned' = Append(returned, data)
    /\ UNCHANGED <<params, horizon, i, monthly_salary, average_salary, savings,
                   housing_fund, pension_years, medical_years, data,
                   scenVars, tasks, sessions, fileVars>>

\* the next call: the statements before the loop run again
CallAgain ==
    /\ pc = "done"
    /\ Len(returned) < MaxCalls
    /\ data' = new_data(data)
    /\ monthly_salary' = InitialState(params).monthly_salary
    /\ average_salary' = InitialState(params).average_salary
    /\ savings' = InitialState(params).savings
    /\ housing_fund' = InitialState(params).housing_fund
    /\ pension_years' = InitialState(params).pension_years
    /\ medical_years' = InitialState(params).medical_years
    /\ i' = 0
    /\ pc' = "loop"
    /\ UNCHANGED <<params, horizon, scenVars, callVars, fileVars>>

NextRepeat == Iterate \/ ReturnToCaller \/ CallAgain

SpecRepeat == InitRepeat /\ [][NextRepeat]_vars

---------------------------------------------------------------------------
(* Invocations of calculate_yearly_projection running concurrently, one per
   scenario name, their loop iterations interleaved in any order *)

\* mutant: the carried locals are one set of variables shared by all
\* invocations
own_locals_shared(ts, name) == ts[CHOOSE n \in DOMAIN ts : TRUE].st

\* the locals an invocation's iteration reads: those of its own frame
own_locals(ts, name) == ts[name].st

\* a call just entered: the statements before the loop have run
NewTask(p) == [params |-> p, st |-> InitialState(p), i |-> 0, data |-> <<>>,
               pc |-> "loop"]

InitParallel ==
    /\ horizon \in 0 .. MaxHorizon
    /\ \E ps \in [Names -> ScenarioParams] :
          tasks = [n \in Names |-> NewTask(ps[n])]
    /\ returned = <<>>
    /\ sessions = <<>>
    /\ params = <<>>
    /\ i = 0
    /\ monthly_salary = 0
    /\ average_salary = 0
    /\ savings = 0
    /\ housing_fund = 0
    /\ pension_years = 0
    /\ medical_years = 0
    /\ data = <<>>
    /\ pc = "idle"
    /\ NoBatch
    /\ NoFiles

\* one loop iteration of the invocation running for name
TaskIterate(name) ==
    /\ tasks[name].pc = "loop"
    /\ loop_continues(tasks[name].i, horizon)
    /\ LET b == Body(tasks[name].params, own_locals(tasks, name),
                     tasks[name].i)
       IN  tasks' = [tasks EXCEPT ![name] =
                        [@ EXCEPT !.st = b.st,
                                  !.i = @ + 1,
                                  !.data = Append(@, b.rec)]]
    /\ UNCHANGED <<projVars, scenVars, returned, sessions, fileVars>>

TaskReturn(name) ==
    /\ tasks[name].pc = "loop"
    /\ ~loop_continues(tasks[name].i, horizon)
    /\ tasks' = [tasks EXCEPT ![name] = [@ EXCEPT !.pc = "done"]]
    /\ UNCHANGED <<projVars, scenVars, returned, sessions, fileVars>>

NextParallel ==
    \E name \in Names : TaskIterate(name) \/ TaskReturn(name)

SpecParallel == InitParallel /\ [][NextParallel]_vars

---------------------------------------------------------------------------
(* The preset store of src/src/utils/presets.py.  The three keys of
   DEFAULT_PRESETS are written "conservative", "neutral" and "optimistic"
   here; amounts, rates and ratios are in the units of the projection. *)

\* the fields of the FinanceParams dataclass
FinanceParamsFields ==
    {"start_year", "start_work_year", "current_age", "retirement_age",
     "official_retirement_age", "initial_monthly_salary",
     "local_average_salary", "salary_growth_rate",
     "pension_replacement_ratio", "contribution_ratio",
     "living_expense_ratio", "deposit_rate", "inflation_rate",
     "initial_savings", "initial_housing_fund", "housing_fund_rate",
     "initial_personal_pension"}

\* the keys of the "params" dict that save_preset writes
SavedFields ==
    {"start_year", "start_work_year", "current_age", "retirement_age",
     "initial_monthly_salary", "local_average_salary", "salary_growth_rate",
     "pension_replacement_ratio", "contribution_ratio",
     "living_expense_ratio", "deposit_rate", "inflation_rate",
     "initial_savings", "initial_housing_fund", "housing_fund_rate",
     "initial_personal_pension"}

\* the "params" dict of a default preset: the three differ in three rates
DefaultPresetParams(growth, living, deposit) ==
    [start_year |-> 2025, start_work_year |-> 2015,
     current_age |-> 34, retirement_age |-> 45,
     initial_monthly_salary |-> 10000000, local_average_salary |-> 12307000,
     salary_growth_rate |-> growth,
     pension_replacement_ratio |-> 40, contribution_ratio |-> 60,
     living_expense_ratio |-> living,
     deposit_rate |-> deposit, inflation_rate |-> 0,
     initial_savings |-> 1000000000, initial_housing_fund |-> 150000000,
     housing_fund_rate |-> 15, initial_personal_pension |-> 0]

DEFAULT_PRESETS ==
    [n \in {"conservative", "neutral", "optimistic"} |->
        [description |-> n,
         params |-> IF n = "conservative" THEN DefaultPresetParams(20, 60, 15)
                    ELSE IF n = "neutral" THEN DefaultPresetParams(40, 50, 20)
                    ELSE DefaultPresetParams(60, 40, 30)]]

\* the names presets are saved, looked up and deleted under
PresetNames == Names \cup DOMAIN DEFAULT_PRESETS

\* load_presets(): the dict it returns; it writes the defaults to the file
\* when there is no file, so the file holds the returned dict afterwards
load_presets(file) == IF file.exists THEN file.content ELSE DEFAULT_PRESETS

\* the entry save_preset stores, with its "params" dict
preset_entry(p, description) ==
    [description |-> description,
     created_at |-> "today",
     params |-> [f \in SavedFields |-> p[f]]]

\* what a call gives: a value, or the exception it raises
Value(v) == [raised |-> "", value |-> v]
Raised(e) == [raised |-> e, value |-> <<>>]

\* FinanceParams(**params_dict): the dataclass takes exactly its own fields
params_from_dict(params_dict) ==
    IF DOMAIN params_dict = FinanceParamsFields THEN Value(params_dict)
    ELSE Raised("TypeError")

\* params_from_dict(get_preset(name)['params']); get_preset gives {} for a
\* name that is not stored
reconstruct(presets, name) ==
    IF name \in DOMAIN presets THEN params_from_dict(presets[name].params)
    ELSE Raised("KeyError")

\* mutant: any stored preset can be deleted
deletable_any(presets, name) == name \in DOMAIN presets

\* if name in presets and name not in DEFAULT_PRESETS
deletable(presets, name) ==
    name \in DOMAIN presets /\ name \notin DOMAIN DEFAULT_PRESETS

\* a session whose current parameters are params, and no presets file yet
InitPresets ==
    /\ params \in ScenarioParams
    /\ NoFiles
    /\ horizon = 0
    /\ i = 0
    /\ monthly_salary = 0
    /\ average_salary = 0
    /\ savings = 0
    /\ housing_fund = 0
    /\ pension_years = 0
    /\ medical_years = 0
    /\ data = <<>>
    /\ pc = "idle"
    /\ NoBatch
    /\ NoCallers

\* save_preset(name, params)
SavePreset(name) ==
    /\ presets_file' = FileOf(Put(load_presets(presets_file), name,
                                  preset_entry(params, "")))
    /\ UNCHANGED <<projVars, scenVars, callVars, loaded, workbook, imported>>

\* delete_preset(name)
DeletePreset(name) ==
    /\ LET presets == load_presets(presets_file)
       IN  presets_file' =
               FileOf(IF deletable(presets, name)
                      THEN [n \in DOMAIN presets \ {name} |-> presets[n]]
                      ELSE presets)
    /\ UNCHANGED <<projVars, scenVars, callVars, loaded, workbook, imported>>

\* params_from_dict(get_preset(name)['params'])
Reconstruct(name) ==
    /\ presets_file' = FileOf(load_presets(presets_file))
    /\ loaded' = [name |-> name,
                  result |-> reconstruct(load_presets(presets_file), name)]
    /\ UNCHANGED <<projVars, scenVars, callVars, workbook, imported>>

NextPresets ==
    \E name \in PresetNames :
        SavePreset(name) \/ DeletePreset(name) \/ Reconstruct(name)

SpecPresets == InitPresets /\ [][NextPresets]_vars

---------------------------------------------------------------------------
(* save_preset called from several sessions at the same time: each call is a
   load of the whole store, an update of the loaded dict and a write of the
   whole store; no lock is held between the load and the write *)

\* a call save_preset(name, p) about to start
NewSession(name, p) ==
    [pc |-> "start", name |-> name, params |-> p, presets |-> <<>>]

\* one session per name, each saving a preset under its own name, with the
\* presets file not yet created or holding the defaults
InitSessions ==
    /\ presets_file \in {NoFile, FileOf(DEFAULT_PRESETS)}
    /\ \E ps \in [Names -> ScenarioParams] :
          sessions = [s \in Names |-> NewSession(s, ps[s])]
    /\ loaded = <<>>
    /\ workbook = NoFile
    /\ imported = <<>>
    /\ returned = <<>>
    /\ tasks = <<>>
    /\ NoCall
    /\ NoBatch

\* presets = load_presets()
SessionLoad(s) ==
    /\ sessions[s].pc = "start"
    /\ sessions' = [sessions EXCEPT ![s] =
                       [@ EXCEPT !.pc = "loaded",
                                 !.presets = load_presets(presets_file)]]
    /\ presets_file' = FileOf(load_presets(presets_file))
    /\ UNCHANGED <<projVars, scenVars, returned, tasks, loaded, workbook,
                   imported>>

\* presets[name] = {...}; save_presets(presets)
SessionWrite(s) ==
    /\ sessions[s].pc = "loaded"
    /\ LET presets == Put(sessions[s].presets, sessions[s].name,
                          preset_entry(sessions[s].params, ""))
       IN  /\ sessions' = [sessions EXCEPT ![s] =
                              [@ EXCEPT !.pc = "done", !.presets = presets]]
           /\ presets_file' = FileOf(presets)
    /\ UNCHANGED <<projVars, scenVars, returned, tasks, loaded, workbook,
                   imported>>

NextSessions == \E s \in Names : SessionLoad(s) \/ SessionWrite(s)

SpecSessions == InitSessions /\ [][NextSessions]_vars

---------------------------------------------------------------------------
(* Export and import of the user's parameters, src/src/utils/file_handler.py.
   The row labels of the sheet are Chinese strings in the source; they are
   written here as English glosses, one gloss per distinct label.  A cell is
   a number or a text; a fraction read from a percent text is in
   ten-thousandths (0.04 = 400). *)

Number(v) == [type |-> "number", v |-> v, suffix |-> ""]
\* f"{rate}%": the rate followed by a percent sign
PercentText(rate) == [type |-> "text", v |-> rate, suffix |-> "%"]
\* f"{ratio:.4f}": the ratio with 4 decimals, a text as well
FixedText(ratio) == [type |-> "text", v |-> ratio, suffix |-> ""]

\* the rows of the user parameter sheet: label -> cell
export_user_params(p) ==
    [label \in {"start year (default this year)", "start work year",
                "current age", "early retirement age",
                "official retirement age", "current monthly salary (yuan)",
                "local average monthly salary (yuan)",
                "estimated wage and price annual growth rate (%)",
                "estimated pension replacement ratio",
                "flexible employment contribution ratio",
                "consumption coefficient",
                "expected deposit annual rate (%)",
                "initial savings (yuan)", "initial housing fund (yuan)",
                "housing fund annual growth rate (%)",
                "personal pension initial value (yuan)"} |->
        CASE label = "start year (default this year)" -> Number(p.start_year)
          [] label = "start work year" -> Number(p.start_work_year)
          [] label = "current age" -> Number(p.current_age)
          [] label = "early retirement age" -> Number(p.retirement_age)
          [] label = "official retirement age" ->
                 Number(p.official_retirement_age)
          [] label = "current monthly salary (yuan)" ->
                 Number(p.initial_monthly_salary)
          [] label = "local average monthly salary (yuan)" ->
                 Number(p.local_average_salary)
          [] label = "estimated wage and price annual growth rate (%)" ->
                 PercentText(p.salary_growth_rate)
          [] label = "estimated pension replacement ratio" ->
                 FixedText(p.pension_replacement_ratio)
          [] label = "flexible employment contribution ratio" ->
                 Number(p.contribution_ratio)
          [] label = "consumption coefficient" ->
                 Number(p.living_expense_ratio)
          [] label = "expected deposit annual rate (%)" ->
                 PercentText(p.deposit_rate)
          [] label = "initial savings (yuan)" -> Number(p.initial_savings)
          [] label = "initial housing fund (yuan)" ->
                 Number(p.initial_housing_fund)
          [] label = "housing fund annual growth rate (%)" ->
                 PercentText(p.housing_fund_rate)
          [] OTHER -> Number(p.initial_personal_pension)]

\* float(text.replace('%', '')) / 100: tenths of a percent to ten-thousandths
percent_to_fraction(rate) == rate * 10

\* the value import_params_from_excel stores for a cell
import_value(cell) ==
    IF cell.type = "text" /\ cell.suffix = "%"
    THEN percent_to_fraction(cell.v)
    ELSE cell.v

\* import_params_from_excel: user_params has a key per row of the sheet; a
\* file that cannot be read gives no user_params; no presets were exported
import_params_from_excel(file) ==
    IF file.exists
    THEN [user_params |-> [label \in DOMAIN file.content |->
                              import_value(file.content[label])],
          user_presets |-> <<>>]
    ELSE [user_presets |-> <<>>]

\* the record of the import/export test, at full scale
ExportTestParams ==
    [start_year |-> 2026, start_work_year |-> 2016,
     current_age |-> 35, retirement_age |-> 45,
     official_retirement_age |-> 60,
     initial_monthly_salary |-> 15000000, local_average_salary |-> 12307000,
     salary_growth_rate |-> 50,
     pension_replacement_ratio |-> 45, contribution_ratio |-> 80,
     living_expense_ratio |-> 55,
     deposit_rate |-> 25, inflation_rate |-> 0,
     initial_savings |-> 1200000000, initial_housing_fund |-> 200000000,
     housing_fund_rate |-> 20, initial_personal_pension |-> 0]

InitExport ==
    /\ params \in ParamSpace \cup {ExportTestParams}
    /\ NoFiles
    /\ horizon = 0
    /\ i = 0
    /\ monthly_salary = 0
    /\ average_salary = 0
    /\ savings = 0
    /\ housing_fund = 0
    /\ pension_years = 0
    /\ medical_years = 0
    /\ data = <<>>
    /\ pc = "idle"
    /\ NoBatch
    /\ NoCallers

\* export_user_params_and_presets(params, output_path)
Export ==
    /\ workbook' = FileOf(export_user_params(params))
    /\ UNCHANGED <<projVars, scenVars, callVars, presets_file, loaded,
                   imported>>

\* import_params_from_excel(file_path)
Import ==
    /\ imported' = import_params_from_excel(workbook)
    /\ UNCHANGED <<projVars, scenVars, callVars, presets_file, loaded,
                   workbook>>

NextExport == Export \/ Import

SpecExport == InitExport /\ [][NextExport]_vars

---------------------------------------------------------------------------
(* Properties of calculate_yearly_projection *)

Last(seq) == seq[Len(seq)]
Abs(x) == IF x < 0 THEN -x ELSE x

\* C1: a finished call has returned horizon + 1 records (61 with the default
\* horizon), and the record at index k of the list, built or being built, has
\* year = start_year + k and age = current_age + k (k counted from 0).
C1_LengthAndOrder ==
    pc \in {"loop", "done"} =>
        /\ \A k \in 1 .. Len(data) :
              /\ data[k].year = params.start_year + (k - 1)
              /\ data[k].age = params.current_age + (k - 1)
        /\ pc = "done" => Len(data) = horizon + 1

C1_Witness ==
    /\ pc = "done"
    /\ horizon = max_projection_years
    /\ Len(data) = 61
    /\ Last(data).year = params.start_year + 60

\* C2: in every emitted record pension_years is at most 20 and medical_years
\* at most 25, also when the seeded years start_year - start_work_year
\* already exceed a threshold.
C2_YearsCapped ==
    pc \in {"loop", "done"} =>
        \A k \in 1 .. Len(data) :
            /\ data[k].pension_years <= MIN_PENSION_YEARS
            /\ data[k].medical_years <= MIN_MEDICAL_YEARS

EnteringLiquidation ==
    /\ pc = "loop"
    /\ loop_continues(i, horizon)
    /\ age_of(params, i) = 60
    /\ housing_fund > 0

\* C4 as claimed: at age 60, when the housing fund carried from the prior
\* year is positive, the record has housing_fund_account = 0 and the savings
\* exceed savings_prev * (1 + deposit_rate/100) + net flow by the liquidated
\* amount.
C4_Original ==
    [][EnteringLiquidation =>
          /\ Last(data').housing_fund_account = 0
          /\ savings' = Grow(savings, params.deposit_rate)
                        + Body(params, Carried, i).loc.annual_savings
                        + housing_fund]_vars

\* C4 as amended: at age 60, when the housing fund H carried from the prior
\* year is positive, the record has housing_fund_account = 0, and the fund is
\* added to the savings before that year's interest is applied: the savings
\* are (savings_prev + H) * (1 + deposit_rate/100) + net flow, which exceeds
\* savings_prev * (1 + deposit_rate/100) + net flow by H * (1 +
\* deposit_rate/100), to within a thousandth.
C4_Liquidation ==
    [][EnteringLiquidation =>
          LET flow == Body(params, Carried, i).loc.annual_savings
          IN  /\ Last(data').housing_fund_account = 0
              /\ housing_fund' = 0
              /\ savings' = Grow(savings + housing_fund, params.deposit_rate)
                            + flow
              /\ Abs(savings' - (Grow(savings, params.deposit_rate) + flow)
                     - Grow(housing_fund, params.deposit_rate)) <= 1]_vars

\* the record of age 60 after a record with a positive housing fund
C4_Witness ==
    /\ pc = "loop"
    /\ Len(data) >= 2
    /\ Last(data).age = 60
    /\ data[Len(data) - 1].housing_fund_account > 0
    /\ Last(data).housing_fund_account = 0
    /\ housing_fund = 0

\* the contribution-year counters entering the year of record k
EnteringPensionYears(k) ==
    IF k = 1 THEN initial_years(params) ELSE data[k - 1].pension_years
EnteringMedicalYears(k) ==
    IF k = 1 THEN initial_years(params) ELSE data[k - 1].medical_years
RetiredAt(k) == data[k].age >= params.retirement_age
NoContribution(k) ==
    data[k].contribution_base = 0 /\ data[k].pension_contribution = 0

\* C7: a retired year carries a contribution (base = average_salary *
\* contribution_ratio, contribution = base * 0.30 * 12) exactly when,
\* entering it, pension_years < 20 or medical_years < 25; once a retired year
\* carries none, no later year carries one; and a year that follows 25
\* retired years carries none.
C7_CatchUp ==
    (pc \in {"loop", "done"} /\ Len(data) > 0) =>
        LET n == Len(data)
            base == Frac(average_salary, params.contribution_ratio)
        IN  /\ RetiredAt(n) =>
                  IF \/ EnteringPensionYears(n) < 20
                     \/ EnteringMedicalYears(n) < 25
                  THEN /\ data[n].contribution_base = Round2(base)
                       /\ data[n].pension_contribution
                              = Round2(MulDiv(base, 3, 10) * 12)
                       /\ data[n].pension_contribution > 0
                  ELSE NoContribution(n)
            /\ \A j \in 1 .. n - 1 :
                  (RetiredAt(j) /\ NoContribution(j)) => NoContribution(n)
            /\ data[n].age - Max(params.retirement_age, params.current_age)
                   >= 25 => NoContribution(n)

\* the 26th retired year, the first without a contribution
C7_Witness ==
    /\ pc = "loop"
    /\ Len(data) >= 2
    /\ Last(data).age - Max(params.retirement_age, params.current_age) = 25
    /\ data[Len(data) - 1].pension_contribution > 0
    /\ NoContribution(Len(data))

Canonical(p) ==
    WithUnread(p, [official_retirement_age |-> 60,
                   initial_personal_pension |-> 0])

C9_OfficialAgeGate ==
    pc \in {"loop", "done"} =>
        \A k \in 1 .. Len(data) :
            /\ data[k].age < params.official_retirement_age =>
                   ~data[k].can_receive_pension
            /\ (/\ data[k].age = params.official_retirement_age
                /\ data[k].pension_years >= MIN_PENSION_YEARS) =>
                   /\ data[k].can_receive_pension
                   /\ data[k].annual_pension_received > 0

---------------------------------------------------------------------------
(* Properties of calculate_scenarios *)

\* C6: the results dict has exactly the names of the scenarios dict as keys
\* once the call is done, and the sequence under each name is the projection
\* of that name's FinanceParams run alone, whatever the other entries are.
C6_ScenariosIndependent ==
    spc \in {"loop", "done"} =>
        /\ DOMAIN results \subseteq DOMAIN scenarios
        /\ spc = "done" => DOMAIN results = DOMAIN scenarios
        /\ \A n \in DOMAIN results :
              results[n] = calculate_yearly_projection(heap[scenarios[n]],
                                                       max_projection_years)

\* a finished batch of two entries with different results
C6_Witness ==
    /\ spc = "done"
    /\ DOMAIN results = {"A", "B"}
    /\ scenarios["A"] # scenarios["B"]
    /\ results["A"] # results["B"]

---------------------------------------------------------------------------
(* Properties of the reference wage *)

\* C11 as stated: with salary_growth_rate > 0 the average_salary of every
\* record is strictly greater than that of the record before it, whatever
\* local_average_salary is.
C11_Original ==
    (pc \in {"loop", "done"} /\ params.salary_growth_rate > 0) =>
        \A k \in 2 .. Len(data) :
            data[k].average_salary > data[k - 1].average_salary

\* C11: with salary_growth_rate > 0 and local_average_salary > 0 the
\* average_salary of a record, which is the carried average salary rounded
\* to 2 decimals, is never smaller than that of the record before it, and it
\* is strictly greater whenever the growth of the year, the carried average
\* salary times salary_growth_rate / 100, is more than 0.01, retired or not.
C11_AverageGrows ==
    [][(/\ pc = "loop"
        /\ i >= 1
        /\ Len(data') = Len(data) + 1
        /\ params.salary_growth_rate > 0
        /\ params.local_average_salary > 0) =>
           /\ Last(data').average_salary = Round2(average_salary')
           /\ Last(data').average_salary >= Last(data).average_salary
           /\ MulDiv(average_salary, params.salary_growth_rate, 1000) > 10 =>
                  Last(data').average_salary > Last(data).average_salary]_vars

\* a retired year in which the average salary of the record has grown
C11_Witness ==
    /\ pc = "loop"
    /\ Len(data) >= 2
    /\ params.salary_growth_rate > 0
    /\ params.local_average_salary > 0
    /\ Last(data).age > params.retirement_age
    /\ Last(data).average_salary > data[Len(data) - 1].average_salary

---------------------------------------------------------------------------
(* Properties of repeated calls *)

\* C12: a call never changes its FinanceParams argument; every call starts
\* from the locals the statements before the loop give them, with an empty
\* list, whatever the call before left; and all the calls made with the same
\* record and horizon have returned the same list, which is the list the
\* function gives for that record and horizon.
C12_Deterministic ==
    [][/\ params' = params
       /\ (pc = "done" /\ pc' = "loop") =>
              /\ Carried' = InitialState(params)
              /\ data' = <<>>
              /\ i' = 0
       /\ \A a, b \in 1 .. Len(returned') : returned'[a] = returned'[b]
       /\ \A a \in 1 .. Len(returned') :
              returned'[a] = calculate_yearly_projection(params, horizon)]_vars

\* two calls with the default horizon have returned
C12_Witness ==
    /\ pc = "done"
    /\ Len(returned) = MaxCalls
    /\ horizon = max_projection_years
    /\ Len(returned[1]) = 61
    /\ returned[1] = returned[MaxCalls]

---------------------------------------------------------------------------
(* The end-to-end record *)

\* C13: for the end-to-end record (2025, working since 2015, age 34,
\* retiring at 45, salary 10000, average 12307, growth 4.0, savings 1000000,
\* housing fund 150000) the record at index 0 has year 2025, age 34,
\* average_salary 12307.00, monthly_salary 10000.00, pension_contribution
\* 21600.00, housing_fund_account 150000.00, pension_years 11, medical_years
\* 11, can_receive_pension false, annual_pension_received 0.00,
\* living_expense 73842.00, savings 1044558.00 and total_assets 1194558.00.
C13_EndToEnd ==
    (pc \in {"loop", "done"} /\ params = EndToEndParams /\ Len(data) >= 1) =>
        /\ data[1].year = 2025
        /\ data[1].age = 34
        /\ data[1].average_salary = 12307000
        /\ data[1].monthly_salary = 10000000
        /\ data[1].pension_contribution = 21600000
        /\ data[1].housing_fund_account = 150000000
        /\ data[1].pension_years = 11
        /\ data[1].medical_years = 11
        /\ data[1].can_receive_pension = FALSE
        /\ data[1].annual_pension_received = 0
        /\ data[1].living_expense = 73842000
        /\ data[1].savings = 1044558000
        /\ data[1].total_assets = 1194558000

\* a finished call with the end-to-end record
C13_Witness ==
    /\ pc = "done"
    /\ params = EndToEndParams
    /\ Len(data) = horizon + 1

---------------------------------------------------------------------------
(* Properties of concurrent invocations *)

\* C14: however the iterations of the concurrent invocations are
\* interleaved, each invocation has built the first records of the list its
\* own record gives when run alone, and a finished one has built all of it.
C14_Interleaving ==
    \A n \in DOMAIN tasks :
        LET alone == calculate_yearly_projection(tasks[n].params, horizon)
        IN  /\ tasks[n].data = SubSeq(alone, 1, tasks[n].i)
            /\ tasks[n].pc = "done" => tasks[n].data = alone

\* two finished invocations with different records and different results
C14_Witness ==
    /\ DOMAIN tasks = Names
    /\ \A n \in Names : tasks[n].pc = "done"
    /\ horizon = MaxHorizon
    /\ tasks["A"].params # tasks["B"].params
    /\ tasks["A"].data # tasks["B"].data

---------------------------------------------------------------------------
(* Properties of the preset store *)

\* C15 as stated: every preset of the store has every field of FinanceParams
\* in its params, official_retirement_age included; a preset written by
\* save_preset gives back, through params_from_dict, the record it was saved
\* from; and no params_from_dict(get_preset(name)['params']) of a stored
\* name has failed.
C15_RoundTrip ==
    /\ \A n \in DOMAIN presets_file.content :
          LET preset == presets_file.content[n]
          IN  /\ DOMAIN preset.params = FinanceParamsFields
              /\ "created_at" \in DOMAIN preset =>
                     params_from_dict(preset.params) = Value(params)
    /\ loaded # <<>> => loaded.result.raised # "TypeError"

---------------------------------------------------------------------------
(* Properties of export and import *)

\* C16 as stated: what was imported from an exported file has, in
\* user_params, the keys "current age", "current monthly salary (yuan)",
\* "wage annual growth rate (%)", "deposit annual rate (%)", "initial
\* savings (yuan)" and "initial housing fund (yuan)", with the values of
\* current_age, initial_monthly_salary, initial_savings and
\* initial_housing_fund, and the two rates as fractions, rate / 100.
C16_KeyFields ==
    (workbook.exists /\ imported # <<>> /\ "user_params" \in DOMAIN imported) =>
        LET u == imported.user_params
        IN  /\ {"current age", "current monthly salary (yuan)",
                "wage annual growth rate (%)", "deposit annual rate (%)",
                "initial savings (yuan)", "initial housing fund (yuan)"}
                   \subseteq DOMAIN u
            /\ u["current age"] = params.current_age
            /\ u["current monthly salary (yuan)"] =
                   params.initial_monthly_salary
            /\ u["wage annual growth rate (%)"] =
                   params.salary_growth_rate * 10
            /\ u["deposit annual rate (%)"] = params.deposit_rate * 10
            /\ u["initial savings (yuan)"] = params.initial_savings
            /\ u["initial housing fund (yuan)"] = params.initial_housing_fund

---------------------------------------------------------------------------
(* Properties of one iteration *)

\* C17: the four carried amounts of an iteration are computed from the
\* unrounded amounts the iteration before left, and are left unrounded; the
\* record holds their values rounded to 2 decimals.
C17_RoundingAtEmission ==
    [][(pc = "loop" /\ Len(data') = Len(data) + 1) =>
          LET age == age_of(params, i)
              rate == params.salary_growth_rate
              flow == Body(params, Carried, i).loc.annual_savings
              grown == IF age < 60 /\ i > 0
                       THEN Grow(housing_fund, params.housing_fund_rate)
                            + MulDiv(monthly_salary', 7, 100) * 12
                       ELSE housing_fund
              withdrawn == IF age = 60 /\ grown > 0 THEN grown ELSE 0
          IN  /\ average_salary' =
                     IF i > 0 THEN Grow(average_salary, rate)
                     ELSE average_salary
              /\ monthly_salary' =
                     IF age < params.retirement_age /\ i > 0
                     THEN Grow(monthly_salary, rate) ELSE monthly_salary
              /\ housing_fund' = grown - withdrawn
              /\ savings' = Grow(savings + withdrawn, params.deposit_rate)
                            + flow
              /\ Last(data').average_salary = Round2(average_salary')
              /\ Last(data').monthly_salary =
                     IF age < params.retirement_age
                     THEN Round2(monthly_salary') ELSE 0
              /\ Last(data').housing_fund_account = Round2(housing_fund')
              /\ Last(data').savings = Round2(savings')]_vars

\* a year whose carried amounts are not the rounded ones of its record, and
\* whose successor would differ had it been computed from the record
C17_Witness ==
    /\ pc = "loop"
    /\ Len(data) >= 1
    /\ loop_continues(i, horizon)
    /\ savings # Last(data).savings
    /\ average_salary # Last(data).average_salary
    /\ Body(params, Carried, i).rec.savings
           # Body(params, [Carried EXCEPT !.savings = Last(data).savings],
                  i).rec.savings

C19_Counters ==
    (pc \in {"loop", "done"} /\ Len(data) > 0) =>
        LET n == Len(data)
            py == EnteringPensionYears(n)
            my == EnteringMedicalYears(n)
            paying == \/ ~RetiredAt(n)
                      \/ py < MIN_PENSION_YEARS
                      \/ my < MIN_MEDICAL_YEARS
        IN  /\ data[n].pension_years =
                   IF paying /\ py < MIN_PENSION_YEARS THEN py + 1 ELSE py
            /\ data[n].medical_years =
                   IF paying /\ my < MIN_MEDICAL_YEARS THEN my + 1 ELSE my
            /\ data[n].pension_years - py \in {0, 1}
            /\ data[n].medical_years - my \in {0, 1}

\* a catch-up year in which the medical years grow and the pension years,
\* at their minimum, do not
C19_Witness ==
    /\ pc = "loop"
    /\ Len(data) > 0
    /\ RetiredAt(Len(data))
    /\ EnteringPensionYears(Len(data)) = MIN_PENSION_YEARS
    /\ Last(data).pension_years = MIN_PENSION_YEARS
    /\ Last(data).medical_years = EnteringMedicalYears(Len(data)) + 1

\* C20: the contribution_base of a record is the salary of the year times
\* contribution_ratio below the retirement age, the average salary of the
\* year times contribution_ratio in a retired year entered with a counter
\* below its minimum, and 0 in any other year; pension_contribution is that
\* base times 0.30 times 12 in the three cases (both rounded to 2 decimals
\* in the record).
C20_ContributionBase ==
    (pc \in {"loop", "done"} /\ Len(data) > 0) =>
        LET n == Len(data)
            base == IF data[n].age < params.retirement_age
                    THEN Frac(monthly_salary, params.contribution_ratio)
                    ELSE IF \/ EnteringPensionYears(n) < MIN_PENSION_YEARS
                            \/ EnteringMedicalYears(n) < MIN_MEDICAL_YEARS
                    THEN Frac(average_salary, params.contribution_ratio)
                    ELSE 0
        IN  /\ data[n].contribution_base = Round2(base)
            /\ data[n].pension_contribution = Round2(MulDiv(base, 3, 10) * 12)

\* a catch-up year entered with the pension years complete and the medical
\* years not, charged on a base that is not the salary's
C20_Witness ==
    /\ pc = "loop"
    /\ Len(data) > 0
    /\ RetiredAt(Len(data))
    /\ EnteringPensionYears(Len(data)) >= MIN_PENSION_YEARS
    /\ EnteringMedicalYears(Len(data)) < MIN_MEDICAL_YEARS
    /\ Last(data).pension_contribution > 0
    /\ Last(data).contribution_base
           # Round2(Frac(monthly_salary, params.contribution_ratio))

---------------------------------------------------------------------------
(* Properties of the salary, the housing fund and the savings *)

\* an iteration of the loop is being run by this step
Iterating == pc = "loop" /\ Len(data') = Len(data) + 1

\* C21: the carried monthly salary grows by 1 + salary_growth_rate/100 in a
\* year with i > 0 below the retirement age and is left as it is from the
\* retirement age on; a record below the retirement age has monthly_salary =
\* initial_monthly_salary grown i times (rounded to 2 decimals) and the
\* year's income is 12 times that salary; a record at or above the
\* retirement age has monthly_salary 0 and the year's income is 0.
C21_Salary ==
    [][Iterating =>
          LET working == age_of(params, i) < params.retirement_age
              rate == params.salary_growth_rate
              income == Body(params, Carried, i).loc.annual_income
          IN  /\ monthly_salary' =
                     IF working /\ i > 0 THEN Grow(monthly_salary, rate)
                     ELSE monthly_salary
              /\ working =>
                     /\ monthly_salary' =
                            Compound(params.initial_monthly_salary, rate, i)
                     /\ Last(data').monthly_salary = Round2(monthly_salary')
                     /\ income = 12 * monthly_salary'
              /\ ~working =>
                     /\ Last(data').monthly_salary = 0
                     /\ income = 0]_vars

\* a retired year after working years: the record shows no salary while the
\* carried salary is the grown one of the last working year
C21_Witness ==
    /\ pc = "loop"
    /\ Len(data) >= 2
    /\ params.retirement_age > params.current_age
    /\ Last(data).age > params.retirement_age
    /\ Last(data).monthly_salary = 0
    /\ monthly_salary > params.initial_monthly_salary

C23_TransferBeforeInterest ==
    [][EnteringLiquidation =>
          LET flow == Body(params, Carried, i).loc.annual_savings
          IN  /\ i > 0 => Last(data).housing_fund_account
                             = Round2(housing_fund)
              /\ savings' = Grow(savings + housing_fund, params.deposit_rate)
                            + flow
              /\ Last(data').savings = Round2(savings')
              /\ Last(data').total_assets = Last(data').savings]_vars

\* the record of age 60, with interest on the savings, after a record with
\* a positive housing fund
C23_Witness ==
    /\ pc = "loop"
    /\ Len(data) >= 2
    /\ Last(data).age = 60
    /\ params.deposit_rate > 0
    /\ data[Len(data) - 1].housing_fund_account > 0
    /\ Last(data).total_assets = Last(data).savings
    /\ Last(data).savings > data[Len(data) - 1].savings

\* C24: in a year that is not the one of age 60 with a positive fund, the
\* savings become savings_prev * (1 + deposit_rate/100) + income + benefit -
\* contribution - expense: income is 12 * the salary below the retirement
\* age and 0 from it on; benefit is 12 * average_salary *
\* pension_replacement_ratio when can_receive_pension and 0 otherwise;
\* expense is 12 * average_salary * living_expense_ratio * (1 +
\* inflation_rate/100)^i, on the average salary already grown for year i.
C24_SavingsRecurrence ==
    [][(Iterating /\ ~(age_of(params, i) = 60 /\ housing_fund > 0)) =>
          LET working == age_of(params, i) < params.retirement_age
              income == IF working THEN 12 * monthly_salary' ELSE 0
              benefit ==
                  IF Last(data').can_receive_pension
                  THEN 12 * Frac(average_salary',
                                 params.pension_replacement_ratio)
                  ELSE 0
              base ==
                  IF working
                  THEN Frac(monthly_salary', params.contribution_ratio)
                  ELSE IF \/ pension_years < MIN_PENSION_YEARS
                          \/ medical_years < MIN_MEDICAL_YEARS
                  THEN Frac(average_salary', params.contribution_ratio)
                  ELSE 0
              contribution == 12 * MulDiv(base, 3, 10)
              expense ==
                  12 * Compound(Frac(average_salary',
                                     params.living_expense_ratio),
                                params.inflation_rate, i)
          IN  savings' = Grow(savings, params.deposit_rate)
                         + income + benefit - contribution - expense]_vars

\* a year after age 60 with a pension benefit and an inflated expense
C24_Witness ==
    /\ pc = "loop"
    /\ Len(data) >= 2
    /\ params.inflation_rate > 0
    /\ Last(data).age > 60
    /\ Last(data).can_receive_pension
    /\ Last(data).annual_pension_received > 0

---------------------------------------------------------------------------
(* Properties of the flags and of the end of the housing fund *)

\* C25 as stated: in a finished call in which some record has
\* can_receive_pension true, exactly one record has is_pension_start_year
\* true, and it is the first record with can_receive_pension true.
C25_PensionStartYear ==
    (pc = "done" /\ \E k \in 1 .. Len(data) : data[k].can_receive_pension) =>
        LET first == CHOOSE k \in 1 .. Len(data) :
                        /\ data[k].can_receive_pension
                        /\ \A j \in 1 .. k - 1 : ~data[j].can_receive_pension
        IN  \A k \in 1 .. Len(data) :
                data[k].is_pension_start_year <=> k = first

\* C26 as stated: every record with age >= 60 has housing_fund_account = 0
\* (the opening fund, the salary and the fund's rate are never negative in
\* the inputs).
C26_FundGoneFrom60 ==
    pc \in {"loop", "done"} =>
        \A k \in 1 .. Len(data) :
            data[k].age >= 60 => data[k].housing_fund_account = 0

\* C27: a record that follows a record with can_receive_pension true has
\* can_receive_pension true, and a record with can_receive_pension true has
\* annual_pension_received = 12 * the average salary of its year *
\* pension_replacement_ratio (rounded to 2 decimals).
C27_EligibilityMonotone ==
    [][Iterating =>
          /\ (i > 0 /\ Last(data).can_receive_pension) =>
                 Last(data').can_receive_pension
          /\ Last(data').can_receive_pension =>
                 Last(data').annual_pension_received =
                     Round2(12 * Frac(average_salary',
                                      params.pension_replacement_ratio))]_vars

\* two records in a row with a pension, the later one higher
C27_Witness ==
    /\ pc = "loop"
    /\ Len(data) >= 2
    /\ data[Len(data) - 1].can_receive_pension
    /\ Last(data).can_receive_pension
    /\ Last(data).annual_pension_received
           > data[Len(data) - 1].annual_pension_received

---------------------------------------------------------------------------
(* Properties of the preset store under save and delete *)

\* C29: whatever save_preset, delete_preset or lookup is called, the three
\* default names are keys of the store afterwards; and delete_preset(name)
\* leaves the store as it was unless name is a key that is not a default
\* name, in which case the store afterwards is the store before without that
\* key, every other entry as it was.
C29_DefaultsSurvive ==
    [][LET old == load_presets(presets_file)
           new == presets_file'.content
       IN  /\ presets_file'.exists
           /\ DOMAIN DEFAULT_PRESETS \subseteq DOMAIN new
           /\ \A name \in PresetNames :
                  DeletePreset(name) =>
                      IF name \in DOMAIN old \ DOMAIN DEFAULT_PRESETS
                      THEN /\ DOMAIN new = DOMAIN old \ {name}
                           /\ \A n \in DOMAIN new : new[n] = old[n]
                      ELSE new = old]_vars

\* preset "A" was stored when it was last looked up and is stored no more,
\* while a default name has been overwritten by a save and "B" is stored
C29_Witness ==
    /\ presets_file.exists
    /\ loaded # <<>>
    /\ loaded.name = "A"
    /\ loaded.result.raised = "TypeError"
    /\ "A" \notin DOMAIN presets_file.content
    /\ "B" \in DOMAIN presets_file.content
    /\ "created_at" \in DOMAIN presets_file.content["neutral"]

\* C30 as stated: once the save_preset calls of all the sessions have
\* finished, the name each of them saved is a key of the store.
C30_BothPresent ==
    (sessions # <<>> /\ \A s \in DOMAIN sessions : sessions[s].pc = "done") =>
        \A s \in DOMAIN sessions :
            sessions[s].name \in DOMAIN presets_file.content

====
